---- MODULE Spec2Model ----
(***************************************************************************)
(* A model of the tastar business-operations backend: the invoice ledger   *)
(* (invoices.py, payments.py), the read endpoints of the CMS and document  *)
(* store, transaction matching, the aging reports, the approval endpoints, *)
(* the document-processing pipeline, the conversion of quotations into     *)
(* invoices and the receipt of purchase orders.                            *)
(*                                                                         *)
(* Money is counted in whole cents (Numeric(15, 2) columns), dates in      *)
(* whole days.  A request served alone is one action: the database session *)
(* is committed once at the end of a handler.  The section on concurrent   *)
(* requests splits the two handlers that number invoices into their SQL    *)
(* statements.  Each subsystem has its own specification over the shared   *)
(* tables; the tables a subsystem does not touch stay empty.               *)
(***************************************************************************)
EXTENDS Integers, Sequences, FiniteSets, TLC

VARIABLES
    invoices,        \* table invoices: sequence of rows, the index is the id
    payments,        \* table payments: the set of (company, number) rows
    bills,           \* table bills
    purchaseOrders,  \* table purchase_orders
    quotations,      \* table quotations
    matches,         \* table transaction_matching
    fieldDefs,       \* table field_definitions: sequence of rows
    documents,       \* table documents: sequence of rows
    files,           \* the entries of uploads/documents (one shared directory)
    response,        \* the last request and its answer
    pipe,            \* the state of one process_document call
    inflight         \* the requests being served concurrently, by request

vars == <<invoices, payments, bills, purchaseOrders, quotations, matches,
          fieldDefs, documents, files, response, pipe, inflight>>

\* ------------------------------------------------------------------ bounds

MaxInvoices == 2
MaxPayments == 1
MaxFields == 2
MaxFiles == 2
MaxMatches == 1
MaxAmount == 2
MaxBills == 2
MaxAgedDocs == 2
MaxOrders == 2
MaxQuotations == 2
MaxApprovalDocs == 2
MaxDepth == 3
MaxRequests == 2
MaxReceived == 3
MaxReceivingOrders == 1

\* ------------------------------------------------------------ shared values

None == "None"
Companies == {"A", "B"}

\* The authenticated callers: get_current_active_user yields a user row, of
\* which the handlers read company_id and (through require_role) the roles.
Callers == [company : Companies, admin : BOOLEAN]

InvoiceStatuses ==
    {"draft", "sent", "viewed", "partial", "paid", "overdue", "cancelled"}

Today == 100

RECURSIVE SumSeq(_)
SumSeq(s) == IF s = <<>> THEN 0 ELSE Head(s) + SumSeq(Tail(s))

Max(S) == CHOOSE x \in S : \A y \in S : y <= x

\* What a step records of the request it served: the caller's company and
\* role, the HTTP status code and the body of the answer.
Answer(caller, code, body) ==
    [company |-> caller.company, admin |-> caller.admin, code |-> code,
     body |-> body]

NoRequest == [company |-> None, admin |-> FALSE, code |-> None, body |-> <<>>]

PipeIdle == [pc |-> "idle"]

Abs(x) == IF x < 0 THEN 0 - x ELSE x

\* Rows as their create handlers store them.
NewBill(company, total, due) ==
    [company |-> company, total |-> total, paid |-> 0, balance |-> total,
     status |-> "draft", approval_status |-> None, due |-> due]

\* line_total = quantity_ordered * unit_price (no discount is given); the
\* order's total is the sum of its lines.
LineTotal(item) == item.quantity_ordered * item.unit_price

NewPurchaseOrder(company, items) ==
    [company |-> company,
     total |-> SumSeq([k \in DOMAIN items |-> LineTotal(items[k])]),
     status |-> "draft", approval_status |-> None,
     lines |-> [k \in DOMAIN items |->
                   [quantity_ordered |-> items[k].quantity_ordered,
                    quantity_received |-> 0,
                    quantity_pending |-> items[k].quantity_ordered,
                    status |-> "pending"]]]

NewQuotation(company, total) ==
    [company |-> company, total |-> total, status |-> "draft",
     approval_status |-> None]

\* ------------------------------------------------------------------ ledger

NewInvoice(company, number, total, due, quotation) ==
    [company |-> company, number |-> number, total |-> total, paid |-> 0,
     balance |-> total, status |-> "draft", deleted |-> FALSE, due |-> due,
     quotation |-> quotation]

\* The rows a query with Invoice.id == id AND company_id == caller's AND
\* deleted_at IS NULL finds.
FindInvoice(caller, id) ==
    id \in DOMAIN invoices
    /\ invoices[id].company = caller.company
    /\ ~invoices[id].deleted

\* int(re.search(r'(\d+)$', max_invoice.invoice_number)) of the company's
\* greatest invoice number, 0 when the company has none.
MaxInvoiceNumber(company) ==
    LET nums == {invoices[i].number : i \in {j \in DOMAIN invoices :
                                               invoices[j].company = company}}
    IN IF nums = {} THEN 0 ELSE Max(nums)

\* sum(quantity * unit_price * (1 - discount/100)) plus the tax sum, for line
\* items whose discount_percent and tax_rate are left unset (None, read as 0).
InvoiceTotal(items) ==
    SumSeq([k \in DOMAIN items |-> items[k].quantity * items[k].unit_price])

\* POST /invoices
create_invoice(caller, customer, items, due) ==
    /\ Len(invoices) < MaxInvoices
    /\ IF customer # caller.company
       THEN /\ response' = Answer(caller, 404, <<>>)
            /\ UNCHANGED invoices
       ELSE /\ invoices' = Append(invoices,
                   NewInvoice(caller.company,
                              MaxInvoiceNumber(caller.company) + 1,
                              InvoiceTotal(items), due, None))
            /\ response' = Answer(caller, 201, <<>>)
    /\ UNCHANGED <<payments, bills, purchaseOrders, quotations, matches,
                   fieldDefs, documents, files, pipe, inflight>>

\* PUT /invoices/{invoice_id}: the fields of InvoiceUpdate that were set are
\* assigned; a status outside ck_invoices_status fails the commit.
update_invoice(caller, id, newStatus, newDue) ==
    /\ IF ~FindInvoice(caller, id)
       THEN /\ response' = Answer(caller, 404, <<>>)
            /\ UNCHANGED invoices
       ELSE IF invoices[id].status = "paid"
       THEN /\ response' = Answer(caller, 400, <<>>)
            /\ UNCHANGED invoices
       ELSE IF newStatus # None /\ newStatus \notin InvoiceStatuses
       THEN /\ response' = Answer(caller, 500, <<>>)
            /\ UNCHANGED invoices
       ELSE /\ invoices' = [invoices EXCEPT
                   ![id].status = IF newStatus = None THEN @ ELSE newStatus,
                   ![id].due = IF newDue = None THEN @ ELSE newDue]
            /\ response' = Answer(caller, 200, <<>>)
    /\ UNCHANGED <<payments, bills, purchaseOrders, quotations, matches,
                   fieldDefs, documents, files, pipe, inflight>>

\* DELETE /invoices/{invoice_id}: soft delete, draft invoices only.
delete_invoice(caller, id) ==
    /\ IF FindInvoice(caller, id) /\ invoices[id].status = "draft"
       THEN /\ invoices' = [invoices EXCEPT ![id].deleted = TRUE]
            /\ response' = Answer(caller, 200, <<>>)
       ELSE /\ response' = Answer(caller, 404, <<>>)
            /\ UNCHANGED invoices
    /\ UNCHANGED <<payments, bills, purchaseOrders, quotations, matches,
                   fieldDefs, documents, files, pipe, inflight>>

\* POST /invoices/{invoice_id}/send
send_invoice(caller, id) ==
    /\ IF FindInvoice(caller, id)
       THEN /\ invoices' = [invoices EXCEPT ![id].status = "sent"]
            /\ response' = Answer(caller, 200, <<>>)
       ELSE /\ response' = Answer(caller, 404, <<>>)
            /\ UNCHANGED invoices
    /\ UNCHANGED <<payments, bills, purchaseOrders, quotations, matches,
                   fieldDefs, documents, files, pipe, inflight>>

\* POST /invoices/{invoice_id}/mark-paid
mark_invoice_paid(caller, id) ==
    /\ IF FindInvoice(caller, id)
       THEN /\ invoices' = [invoices EXCEPT
                   ![id].status = "paid",
                   ![id].paid = invoices[id].total,
                   ![id].balance = 0]
            /\ response' = Answer(caller, 200, <<>>)
       ELSE /\ response' = Answer(caller, 404, <<>>)
            /\ UNCHANGED invoices
    /\ UNCHANGED <<payments, bills, purchaseOrders, quotations, matches,
                   fieldDefs, documents, files, pipe, inflight>>

\* The invoice an allocation names: db.query(Invoice).filter(Invoice.id ==
\* allocation_data.invoice_id).first(), whose filter names the id alone.
AllocationInvoice(caller, id) ==
    id \in DOMAIN invoices

\* The allocation loop body without the line that recomputes balance_amount.
ApplyAllocationStale(caller, tbl, alloc) ==
    IF AllocationInvoice(caller, alloc.invoice_id)
    THEN LET inv == tbl[alloc.invoice_id]
             paid == inv.paid + alloc.amount
         IN [tbl EXCEPT ![alloc.invoice_id] =
                [inv EXCEPT !.paid = paid,
                            !.status = IF inv.balance <= 0 THEN "paid" ELSE @]]
    ELSE tbl

\* The body of the allocation loop for one allocation.
ApplyAllocation(caller, tbl, alloc) ==
    IF AllocationInvoice(caller, alloc.invoice_id)
    THEN LET inv == tbl[alloc.invoice_id]
             paid == inv.paid + alloc.amount
             balance == inv.total - paid
         IN [tbl EXCEPT ![alloc.invoice_id] =
                [inv EXCEPT !.paid = paid, !.balance = balance,
                            !.status = IF balance <= 0 THEN "paid" ELSE @]]
    ELSE tbl

RECURSIVE ApplyAllocations(_, _, _)
ApplyAllocations(caller, tbl, allocs) ==
    IF allocs = <<>> THEN tbl
    ELSE ApplyAllocations(caller, ApplyAllocation(caller, tbl, Head(allocs)),
                          Tail(allocs))

MaxPaymentNumber(company) ==
    LET nums == {p.number : p \in {q \in payments : q.company = company}}
    IN IF nums = {} THEN 0 ELSE Max(nums)

\* POST /payments: the payment row, then one allocation row per allocation
\* and the update of the invoice it names.  An allocation naming no invoice
\* row breaks the foreign key of payment_allocations.invoice_id at commit.
create_payment(caller, amount, allocs) ==
    /\ Cardinality(payments) < MaxPayments
    /\ IF \E k \in DOMAIN allocs : allocs[k].invoice_id \notin DOMAIN invoices
       THEN /\ response' = Answer(caller, 500, <<>>)
            /\ UNCHANGED <<invoices, payments>>
       ELSE /\ payments' = payments \cup
                   {[company |-> caller.company,
                     number |-> MaxPaymentNumber(caller.company) + 1]}
            /\ invoices' = ApplyAllocations(caller, invoices, allocs)
            /\ response' = Answer(caller, 201, <<>>)
    /\ UNCHANGED <<bills, purchaseOrders, quotations, matches,
                   fieldDefs, documents, files, pipe, inflight>>

\* ------------------------------------------------------- ledger: behaviours

LineItemInputs == {<<[quantity |-> 2, unit_price |-> 1]>>}
InvoiceIdInputs == 1..MaxInvoices
StatusInputs == {"cancelled", "bogus"}
AllocationInputs ==
    {<<>>} \cup {<<[invoice_id |-> i, amount |-> a]>> :
                    i \in InvoiceIdInputs, a \in {1, 2}}

InitLedger ==
    /\ invoices = <<>>
    /\ payments = {}
    /\ bills = <<>>
    /\ purchaseOrders = <<>>
    /\ quotations = <<>>
    /\ matches = <<>>
    /\ fieldDefs = <<>>
    /\ documents = <<>>
    /\ files = {}
    /\ response = NoRequest
    /\ pipe = PipeIdle
    /\ inflight = <<>>

LedgerCallers == {c \in Callers : ~c.admin}

NextLedger ==
    \E caller \in LedgerCallers :
        \/ \E customer \in Companies, items \in LineItemInputs :
              create_invoice(caller, customer, items, Today)
        \/ \E id \in InvoiceIdInputs, st \in StatusInputs :
              update_invoice(caller, id, st, None)
        \/ \E id \in InvoiceIdInputs : delete_invoice(caller, id)
        \/ \E id \in InvoiceIdInputs : send_invoice(caller, id)
        \/ \E id \in InvoiceIdInputs : mark_invoice_paid(caller, id)
        \/ \E allocs \in AllocationInputs : create_payment(caller, 1, allocs)

SpecLedger == InitLedger /\ [][NextLedger]_vars

\* C1: no request authenticated as a user of one company changes the
\* paid_amount, balance_amount or status of an invoice of another company.
C1_TenantIsolation ==
    [][\A i \in DOMAIN invoices :
          invoices[i].company # response'.company =>
             /\ invoices'[i].paid = invoices[i].paid
             /\ invoices'[i].balance = invoices[i].balance
             /\ invoices'[i].status = invoices[i].status]_vars

\* C11: once an invoice has status 'paid', no later request changes its
\* status, paid_amount or balance_amount.
C11_PaidImmutable ==
    [][\A i \in DOMAIN invoices :
          invoices[i].status = "paid" =>
             /\ invoices'[i].status = "paid"
             /\ invoices'[i].paid = invoices[i].paid
             /\ invoices'[i].balance = invoices[i].balance]_vars

\* ------------------------------------------------------------------- reads

\* A descending sort of a set of row ids: ORDER BY created_at DESC, and the
\* directory listing sorted by st_mtime with reverse=True (ids and file names
\* are handed out in the order of creation).
RECURSIVE Descending(_)
Descending(S) == IF S = {} THEN <<>> ELSE <<Max(S)>> \o Descending(S \ {Max(S)})

\* seq[offset : offset + limit], which is also OFFSET offset LIMIT limit.
Slice(seq, offset, limit) ==
    SubSeq(seq, offset + 1,
           IF offset + limit < Len(seq) THEN offset + limit ELSE Len(seq))

\* The company filter of get_field_definitions: the company_id query
\* parameter when given, else the caller's company; global rows always.
FieldCompanyFilter(caller, company_id) ==
    IF company_id # None THEN {company_id, None} ELSE {caller.company, None}

\* GET /cms/fields
get_field_definitions(caller, entity_type, company_id) ==
    /\ response' = Answer(caller, 200,
          [kind |-> "fields",
           items |-> {i \in DOMAIN fieldDefs :
                         /\ fieldDefs[i].entity_type = entity_type
                         /\ fieldDefs[i].company \in
                               FieldCompanyFilter(caller, company_id)}])
    /\ UNCHANGED <<invoices, payments, bills, purchaseOrders, quotations,
                   matches, fieldDefs, documents, files, pipe, inflight>>

\* POST /cms/fields
create_field_definition(caller, entity_type, field_key) ==
    /\ Len(fieldDefs) < MaxFields
    /\ IF \E i \in DOMAIN fieldDefs :
             /\ fieldDefs[i].entity_type = entity_type
             /\ fieldDefs[i].field_key = field_key
             /\ fieldDefs[i].company = caller.company
       THEN /\ response' = Answer(caller, 400, <<>>)
            /\ UNCHANGED fieldDefs
       ELSE /\ fieldDefs' = Append(fieldDefs,
                   [company |-> caller.company, entity_type |-> entity_type,
                    field_key |-> field_key])
            /\ response' = Answer(caller, 200, <<>>)
    /\ UNCHANGED <<invoices, payments, bills, purchaseOrders, quotations,
                   matches, documents, files, pipe, inflight>>

\* category_map.get(doc_type, "other")
CategoryOf(doc_type) ==
    IF doc_type \in {"invoice", "purchase_order", "delivery_order",
                     "quotation", "receipt", "contract"}
    THEN doc_type ELSE "other"

\* POST /documents/upload.  typeAllowed: the content type is one of
\* allowed_types; processed: what process_document answers (its document
\* type, or None for success = false); dbOk: whether the insert commits.
\* The file is written to the shared upload directory before it is
\* processed and stays there whatever follows.
upload_document(caller, typeAllowed, processed, save_to_db, dbOk) ==
    /\ Cardinality(files) < MaxFiles
    /\ IF ~typeAllowed
       THEN /\ response' = Answer(caller, 400, <<>>)
            /\ UNCHANGED <<files, documents>>
       ELSE LET name == Cardinality(files) + 1 IN
            /\ files' = files \cup {[name |-> name, company |-> caller.company]}
            /\ IF processed = None
               THEN /\ response' = Answer(caller, 500, <<>>)
                    /\ UNCHANGED documents
               ELSE /\ documents' =
                          IF save_to_db /\ dbOk
                          THEN Append(documents,
                                  [company |-> caller.company, file |-> name,
                                   document_type |-> processed,
                                   category |-> CategoryOf(processed)])
                          ELSE documents
                    /\ response' = Answer(caller, 200, <<>>)
    /\ UNCHANGED <<invoices, payments, bills, purchaseOrders, quotations,
                   matches, fieldDefs, pipe, inflight>>

\* The rows of the database branch of list_documents.
ListedDocuments(caller, document_type, category) ==
    {i \in DOMAIN documents :
        /\ documents[i].company = caller.company
        /\ document_type # None => documents[i].document_type = document_type
        /\ category # None => documents[i].category = category}

\* The entries of the file-system branch of list_documents: every regular
\* file of document_service.upload_dir.
ListedFiles(caller) == {f.name : f \in files}

\* GET /documents/list.  dbOk: whether the database query succeeds (a failed
\* query is logged and the file system is listed instead).
list_documents(caller, limit, offset, document_type, category, use_db, dbOk) ==
    /\ LET rows == IF use_db /\ dbOk
                   THEN Slice(Descending(
                           ListedDocuments(caller, document_type, category)),
                           offset, limit)
                   ELSE <<>>
       IN IF rows # <<>>
          THEN response' = Answer(caller, 200,
                  [kind |-> "documents", source |-> "database", items |-> rows])
          ELSE response' = Answer(caller, 200,
                  [kind |-> "documents", source |-> "filesystem",
                   items |-> Slice(Descending(ListedFiles(caller)),
                                   offset, limit)])
    /\ UNCHANGED <<invoices, payments, bills, purchaseOrders, quotations,
                   matches, fieldDefs, documents, files, pipe, inflight>>

\* GET /documents/{document_id}
get_document(caller, id) ==
    /\ IF id \in DOMAIN documents /\ documents[id].company = caller.company
       THEN response' = Answer(caller, 200,
               [kind |-> "documents", source |-> "database", items |-> <<id>>])
       ELSE response' = Answer(caller, 404, <<>>)
    /\ UNCHANGED <<invoices, payments, bills, purchaseOrders, quotations,
                   matches, fieldDefs, documents, files, pipe, inflight>>

\* -------------------------------------------------------- reads: behaviours

EntityTypeInputs == {"invoice", "customer"}
DocTypeInputs == {None, "invoice", "general"}

\* The field_definitions table holds one global row (company_id NULL, which
\* the column allows) before the first request.
InitRead ==
    /\ invoices = <<>>
    /\ payments = {}
    /\ bills = <<>>
    /\ purchaseOrders = <<>>
    /\ quotations = <<>>
    /\ matches = <<>>
    /\ fieldDefs = <<[company |-> None, entity_type |-> "invoice",
                      field_key |-> "global"]>>
    /\ documents = <<>>
    /\ files = {}
    /\ response = NoRequest
    /\ pipe = PipeIdle
    /\ inflight = <<>>

ReadCallers == {c \in Callers : ~c.admin}

NextRead ==
    \E caller \in ReadCallers :
        \/ \E e \in EntityTypeInputs, c \in Companies \cup {None} :
              get_field_definitions(caller, e, c)
        \/ \E e \in EntityTypeInputs : create_field_definition(caller, e, "k")
        \/ \E t, s, d \in BOOLEAN, p \in DocTypeInputs :
              upload_document(caller, t, p, s, d)
        \/ \E limit \in {1, 20}, offset \in {0, 1}, t \in {None, "invoice"},
              u, d \in BOOLEAN :
              list_documents(caller, limit, offset, t, None, u, d)
        \/ \E id \in 1..MaxFiles : get_document(caller, id)

SpecRead == InitRead /\ [][NextRead]_vars

\* The company that owns an entry of a read answer.
OwnerOf(body, item) ==
    IF body.kind = "fields" THEN fieldDefs[item].company
    ELSE IF body.source = "database" THEN documents[item].company
    ELSE (CHOOSE f \in files : f.name = item).company

ItemsOf(body) ==
    IF body.kind = "fields" THEN body.items
    ELSE {body.items[k] : k \in DOMAIN body.items}

\* C2: every record or file entry a list or get request returns belongs to
\* the caller's own company; only a global field definition has no company.
C2_ReadsScoped ==
    response.body # <<>> =>
       \A item \in ItemsOf(response.body) :
          \/ OwnerOf(response.body, item) = response.company
          \/ /\ response.body.kind = "fields"
             /\ OwnerOf(response.body, item) = None

\* The same for the two endpoints apart.
C2_FieldsScoped ==
    (response.body # <<>> /\ response.body.kind = "fields") => C2_ReadsScoped

C2_DocumentsScoped ==
    (response.body # <<>> /\ response.body.kind = "documents") => C2_ReadsScoped

\* ---------------------------------------------------------------- matching

\* Decimal("0.01"), the tolerance used when the request names none.
DefaultTolerance == 1

MatchTypes == {"two_way", "three_way"}

\* A reference of a match request is a string, or None when not given;
\* uuid.UUID() turns it into a row id or rejects it.
BadId == "not-a-uuid"

IdStrings == {"1", "2"}

UUID(s) == IF s = "1" THEN 1 ELSE 2

\* match_data.tolerance_threshold or Decimal("0.01"): None and 0 are falsy.
\* The optional field of the request is <<>> when absent, <<t>> when given.
EffectiveTolerance(tolerance_threshold) ==
    IF tolerance_threshold = <<>> THEN DefaultTolerance
    ELSE IF tolerance_threshold[1] = 0 THEN DefaultTolerance
    ELSE tolerance_threshold[1]

\* within_tolerance = amount_variance <= tolerance
WithinToleranceStrict(amount_variance, tolerance) == amount_variance < tolerance

WithinTolerance(amount_variance, tolerance) == amount_variance <= tolerance

\* The row a lookup of create_match finds: the id and the caller's company.
FoundIn(tbl, caller, id) ==
    id \in DOMAIN tbl /\ tbl[id].company = caller.company

\* The matching logic: the pair that is compared (the bill when a purchase
\* order and a bill were found, else the invoice), and what is stored for it.
\* An absent document is <<>>, a found one <<row>>.
MatchDecision(po, invoice, bill, tolerance_threshold) ==
    LET other == IF po # <<>> /\ bill # <<>> THEN bill
                 ELSE IF po # <<>> /\ invoice # <<>> THEN invoice
                 ELSE <<>>
    IN IF other = <<>>
       THEN [amount_variance |-> None, within_tolerance |-> None,
             match_status |-> "pending", confidence |-> 0]
       ELSE LET variance == Abs(po[1].total - other[1].total)
                within == WithinTolerance(variance,
                             EffectiveTolerance(tolerance_threshold))
            IN [amount_variance |-> variance, within_tolerance |-> within,
                match_status |-> IF within THEN "matched" ELSE "exception",
                confidence |-> IF within THEN 95 ELSE 50]

\* POST /matching
create_match(caller, po_id, do_id, invoice_id, bill_id, match_type, tol) ==
    LET provided == Cardinality({k \in 1..4 :
                        <<po_id, do_id, invoice_id, bill_id>>[k] # None})
        Refuse(code) == /\ response' = Answer(caller, code, <<>>)
                        /\ UNCHANGED matches
    IN
    /\ Len(matches) < MaxMatches
    /\ IF provided < 2 THEN Refuse(400)
       ELSE IF match_type = "three_way" /\ provided < 3 THEN Refuse(400)
       ELSE IF po_id = BadId THEN Refuse(400)
       ELSE IF po_id # None /\ ~FoundIn(purchaseOrders, caller, UUID(po_id))
       THEN Refuse(404)
       ELSE IF invoice_id = BadId THEN Refuse(400)
       ELSE IF invoice_id # None /\ ~FoundIn(invoices, caller, UUID(invoice_id))
       THEN Refuse(404)
       ELSE IF bill_id = BadId THEN Refuse(400)
       ELSE IF bill_id # None /\ ~FoundIn(bills, caller, UUID(bill_id))
       THEN Refuse(404)
       ELSE IF match_type \notin MatchTypes THEN Refuse(500)
       ELSE LET po == IF po_id = None THEN <<>>
                      ELSE <<purchaseOrders[UUID(po_id)]>>
                invoice == IF invoice_id = None THEN <<>>
                           ELSE <<invoices[UUID(invoice_id)]>>
                bill == IF bill_id = None THEN <<>>
                        ELSE <<bills[UUID(bill_id)]>>
                d == MatchDecision(po, invoice, bill, tol)
            IN /\ matches' = Append(matches,
                      [company |-> caller.company,
                       purchase_order_id |-> po_id,
                       invoice_id |-> invoice_id,
                       bill_id |-> bill_id,
                       match_type |-> match_type,
                       match_status |-> d.match_status,
                       confidence |-> d.confidence,
                       amount_variance |-> d.amount_variance,
                       tolerance_threshold |-> EffectiveTolerance(tol),
                       within_tolerance |-> d.within_tolerance,
                       exception_resolved |-> FALSE])
               /\ response' = Answer(caller, 200, <<>>)
    /\ UNCHANGED <<invoices, payments, bills, purchaseOrders, quotations,
                   fieldDefs, documents, files, pipe, inflight>>

\* POST /matching/{match_id}/resolve
resolve_exception(caller, id) ==
    /\ IF ~FoundIn(matches, caller, id)
       THEN /\ response' = Answer(caller, 404, <<>>)
            /\ UNCHANGED matches
       ELSE IF matches[id].match_status # "exception"
       THEN /\ response' = Answer(caller, 400, <<>>)
            /\ UNCHANGED matches
       ELSE /\ matches' = [matches EXCEPT ![id].exception_resolved = TRUE,
                                          ![id].match_status = "resolved"]
            /\ response' = Answer(caller, 200, <<>>)
    /\ UNCHANGED <<invoices, payments, bills, purchaseOrders, quotations,
                   fieldDefs, documents, files, pipe, inflight>>

\* ----------------------------------------------------- matching: behaviours

Amounts == 0..MaxAmount

\* Company A holds purchase order 1, invoice 1 and bill 1, company B holds
\* purchase order 2; the totals are any amounts.
InitMatch ==
    /\ \E tp, ti, tb \in Amounts :
          /\ purchaseOrders =
                <<NewPurchaseOrder("A", <<[quantity_ordered |-> 1,
                                           unit_price |-> tp]>>),
                  NewPurchaseOrder("B", <<[quantity_ordered |-> 1,
                                           unit_price |-> 0]>>)>>
          /\ invoices = <<NewInvoice("A", 1, ti, Today, None)>>
          /\ bills = <<NewBill("A", tb, Today)>>
    /\ payments = {}
    /\ quotations = <<>>
    /\ matches = <<>>
    /\ fieldDefs = <<>>
    /\ documents = <<>>
    /\ files = {}
    /\ response = NoRequest
    /\ pipe = PipeIdle
    /\ inflight = <<>>

MatchCallers == {c \in Callers : ~c.admin}
ToleranceInputs == {<<>>, <<0>>, <<MaxAmount>>}

NextMatch ==
    \E caller \in MatchCallers :
        \/ \E po_id \in {None, BadId} \cup IdStrings, do_id \in {None, "1"},
              invoice_id \in {None, "1"}, bill_id \in {None, "1"},
              match_type \in MatchTypes \cup {"four_way"},
              tol \in ToleranceInputs :
              create_match(caller, po_id, do_id, invoice_id, bill_id,
                           match_type, tol)
        \/ \E id \in 1..MaxMatches : resolve_exception(caller, id)

SpecMatch == InitMatch /\ [][NextMatch]_vars

\* The document the purchase order of a stored match is compared with: the
\* bill, or the invoice when no bill is referenced; <<>> when the match
\* references no such pair.
ComparedWith(m) ==
    IF m.purchase_order_id = None THEN <<>>
    ELSE IF m.bill_id # None THEN <<bills[UUID(m.bill_id)]>>
    ELSE IF m.invoice_id # None THEN <<invoices[UUID(m.invoice_id)]>>
    ELSE <<>>

\* C3: a match as create_match stored it is 'matched' exactly when the
\* purchase order's total and the bill's (or invoice's) differ by at most the
\* tolerance, 'exception' otherwise, and 'pending' with no amount_variance
\* when no such pair is referenced.
C3_SingleToleranceComparison ==
    \A k \in DOMAIN matches :
       LET m == matches[k] IN
       ~m.exception_resolved =>
          IF ComparedWith(m) = <<>>
          THEN m.match_status = "pending" /\ m.amount_variance = None
          ELSE LET diff == Abs(purchaseOrders[UUID(m.purchase_order_id)].total
                               - ComparedWith(m)[1].total)
               IN /\ m.match_status \in {"matched", "exception"}
                  /\ m.match_status = "matched" <=> diff <= m.tolerance_threshold

\* C3 witness: a match stored as 'matched' whose amounts differ by exactly the
\* tolerance, beside a request whose zero tolerance fell back to the default.
C3_Witness ==
    \E k \in DOMAIN matches :
       /\ matches[k].match_status = "matched"
       /\ matches[k].amount_variance = matches[k].tolerance_threshold
       /\ matches[k].amount_variance = MaxAmount

\* The totals of all the documents a stored match references.
ReferencedTotals(m) ==
    (IF m.purchase_order_id = None THEN {}
     ELSE {purchaseOrders[UUID(m.purchase_order_id)].total})
    \cup (IF m.invoice_id = None THEN {} ELSE {invoices[UUID(m.invoice_id)].total})
    \cup (IF m.bill_id = None THEN {} ELSE {bills[UUID(m.bill_id)].total})

\* C4: a three_way match is 'matched' only if the amounts of all the
\* documents it references agree with one another within the tolerance.
C4_ThreeWayAllAgree ==
    \A k \in DOMAIN matches :
       LET m == matches[k] IN
       (m.match_type = "three_way" /\ m.match_status = "matched") =>
          \A x, y \in ReferencedTotals(m) : Abs(x - y) <= m.tolerance_threshold

\* ------------------------------------------------------------------- aging

BillStatuses ==
    {"draft", "pending", "approved", "partial", "paid", "overdue", "cancelled"}

\* The limits of the aging buckets, in days past due.
Days30 == 30
Days60 == 60
Days90 == 90

\* float(Decimal): an amount has two decimals and at most 15 digits
\* (Numeric(15, 2)), which a double carries without loss, so the amount in
\* cents is kept.
Float(amount) == amount

\* POST /bills: the supplier must be one of the caller's company and the bill
\* number must be new in the company.
create_bill(caller, supplier, bill_number, total, due) ==
    /\ Len(bills) < MaxBills
    /\ IF supplier # caller.company
       THEN /\ response' = Answer(caller, 404, <<>>)
            /\ UNCHANGED bills
       ELSE IF \E i \in DOMAIN bills : /\ bills[i].company = caller.company
                                      /\ i = bill_number
       THEN /\ response' = Answer(caller, 400, <<>>)
            /\ UNCHANGED bills
       ELSE /\ bills' = Append(bills, NewBill(caller.company, total, due))
            /\ response' = Answer(caller, 201, <<>>)
    /\ UNCHANGED <<invoices, payments, purchaseOrders, quotations, matches,
                   fieldDefs, documents, files, pipe, inflight>>

\* PUT /bills/{bill_id}: every field of BillUpdate that was set is assigned,
\* status and approval_status included; None is a field left unset.  A status
\* outside ck_bills_status fails the commit.
update_bill(caller, id, newStatus, newApproval) ==
    /\ IF ~FoundIn(bills, caller, id)
       THEN /\ response' = Answer(caller, 404, <<>>)
            /\ UNCHANGED bills
       ELSE IF bills[id].status \in {"paid", "cancelled"}
       THEN /\ response' = Answer(caller, 400, <<>>)
            /\ UNCHANGED bills
       ELSE IF newStatus # None /\ newStatus \notin BillStatuses
       THEN /\ response' = Answer(caller, 500, <<>>)
            /\ UNCHANGED bills
       ELSE /\ bills' = [bills EXCEPT
                   ![id].status = IF newStatus = None THEN @ ELSE newStatus,
                   ![id].approval_status =
                       IF newApproval = None THEN @ ELSE newApproval]
            /\ response' = Answer(caller, 200, <<>>)
    /\ UNCHANGED <<invoices, payments, purchaseOrders, quotations, matches,
                   fieldDefs, documents, files, pipe, inflight>>

\* POST /bills/{bill_id}/approve, behind require_role("admin").
approve_bill(caller, id) ==
    /\ IF ~caller.admin
       THEN /\ response' = Answer(caller, 403, <<>>)
            /\ UNCHANGED bills
       ELSE IF ~FoundIn(bills, caller, id)
       THEN /\ response' = Answer(caller, 404, <<>>)
            /\ UNCHANGED bills
       ELSE IF bills[id].status # "draft"
       THEN /\ response' = Answer(caller, 400, <<>>)
            /\ UNCHANGED bills
       ELSE /\ bills' = [bills EXCEPT ![id].approval_status = "approved",
                                      ![id].status = "pending"]
            /\ response' = Answer(caller, 200, <<>>)
    /\ UNCHANGED <<invoices, payments, purchaseOrders, quotations, matches,
                   fieldDefs, documents, files, pipe, inflight>>

\* days_overdue = (report_date - due_date).days if due_date < report_date else 0
DaysOverdue(report_date, due) ==
    IF due < report_date THEN report_date - due ELSE 0

AgingBucketShifted(days_overdue) ==
    IF days_overdue <= 0 THEN "current"
    ELSE IF days_overdue < Days30 THEN "1-30"
    ELSE IF days_overdue <= Days60 THEN "31-60"
    ELSE IF days_overdue <= Days90 THEN "61-90"
    ELSE "90+"

\* The if / elif chain of the aging loops.
AgingBucket(days_overdue) ==
    IF days_overdue <= 0 THEN "current"
    ELSE IF days_overdue <= Days30 THEN "1-30"
    ELSE IF days_overdue <= Days60 THEN "31-60"
    ELSE IF days_overdue <= Days90 THEN "61-90"
    ELSE "90+"

Buckets == <<"current", "1-30", "31-60", "61-90", "90+">>

\* The rows of a table a query selects, as the sequence of their ids.
RECURSIVE SelectIds(_)
SelectIds(ids) ==
    IF ids = {} THEN <<>>
    ELSE LET first == CHOOSE i \in ids : \A j \in ids : i <= j
         IN <<first>> \o SelectIds(ids \ {first})

\* The loop over the selected documents: one detail line per document, its
\* balance added to the accumulator of its bucket, and the total of the five.
RECURSIVE BucketSum(_, _)
BucketSum(details, bucket) ==
    IF details = <<>> THEN 0
    ELSE (IF Head(details).aging_bucket = bucket
          THEN Head(details).balance_amount ELSE 0)
         + BucketSum(Tail(details), bucket)

AgingBody(kind, tbl, ids, report_date) ==
    LET details == [k \in DOMAIN ids |->
            LET doc == tbl[ids[k]]
                days_overdue == DaysOverdue(report_date, doc.due)
            IN [id |-> ids[k], days_overdue |-> days_overdue,
                balance_amount |-> Float(doc.balance),
                aging_bucket |-> AgingBucket(days_overdue)]]
        acc == [b \in 1..5 |-> BucketSum(details, Buckets[b])]
    IN [kind |-> kind, report_date |-> report_date,
        summary |-> [buckets |-> [b \in 1..5 |-> Float(acc[b])],
                     total |-> Float(SumSeq(acc))],
        details |-> details]

UnpaidInvoice(caller, invoice) ==
    /\ invoice.company = caller.company
    /\ invoice.status \in {"sent", "viewed", "partial", "overdue"}
    /\ invoice.balance > 0
    /\ ~invoice.deleted

UnpaidBill(caller, bill) ==
    /\ bill.company = caller.company
    /\ bill.status \in {"draft", "pending", "approved", "partial"}
    /\ bill.balance > 0

\* as_of_date or date.today(); <<>> is the parameter left out.
ReportDate(as_of_date) == IF as_of_date = <<>> THEN Today ELSE as_of_date[1]

\* GET /reports/aging-receivables
get_aging_receivables(caller, as_of_date) ==
    LET unpaid == {i \in DOMAIN invoices : UnpaidInvoice(caller, invoices[i])}
    IN
    /\ response' = Answer(caller, 200,
           AgingBody("aging_receivables", invoices, SelectIds(unpaid),
                     ReportDate(as_of_date)))
    /\ UNCHANGED <<invoices, payments, bills, purchaseOrders, quotations,
                   matches, fieldDefs, documents, files, pipe, inflight>>

\* GET /reports/aging-payables
get_aging_payables(caller, as_of_date) ==
    LET unpaid == {i \in DOMAIN bills : UnpaidBill(caller, bills[i])} IN
    /\ response' = Answer(caller, 200,
           AgingBody("aging_payables", bills, SelectIds(unpaid),
                     ReportDate(as_of_date)))
    /\ UNCHANGED <<invoices, payments, bills, purchaseOrders, quotations,
                   matches, fieldDefs, documents, files, pipe, inflight>>

\* The GET routes of the bills router, in the order the decorators register
\* them; "" is the router's root.
BillGetRoutes ==
    <<[path |-> "", endpoint |-> "list_bills"],
      [path |-> "/{bill_id}", endpoint |-> "get_bill"],
      [path |-> "/aging", endpoint |-> "get_aging_report"]>>

\* A route's path matches a request path of one segment when it is that
\* segment, or when it is a path parameter.
RouteMatches(route_path, segment) ==
    IF route_path = "" THEN segment = ""
    ELSE IF route_path = "/{bill_id}" THEN segment # ""
    ELSE route_path = "/aging" /\ segment = "aging"

\* The router answers with the first route that matches.
Dispatch(routes, segment) ==
    routes[CHOOSE k \in DOMAIN routes :
              /\ RouteMatches(routes[k].path, segment)
              /\ \A j \in 1..(k - 1) : ~RouteMatches(routes[j].path, segment)
          ].endpoint

\* The body of get_bill: 400 when the id is no UUID, 404 when the company has
\* no such bill.
get_bill(caller, bill_id) ==
    IF bill_id \notin IdStrings
    THEN Answer(caller, 400, [kind |-> "get_bill", request |-> bill_id])
    ELSE IF ~FoundIn(bills, caller, UUID(bill_id))
    THEN Answer(caller, 404, [kind |-> "get_bill", request |-> bill_id])
    ELSE Answer(caller, 200, [kind |-> "get_bill", request |-> bill_id])

\* The body of get_aging_report: the payables report as of today.
get_aging_report(caller) ==
    LET unpaid == {i \in DOMAIN bills : UnpaidBill(caller, bills[i])}
    IN Answer(caller, 200,
              [request |-> "aging"] @@
              AgingBody("bills_aging", bills, SelectIds(unpaid), Today))

\* GET /bills/<segment>
get_bills(caller, segment) ==
    /\ segment # ""
    /\ response' = IF Dispatch(BillGetRoutes, segment) = "get_aging_report"
                   THEN get_aging_report(caller)
                   ELSE get_bill(caller, segment)
    /\ UNCHANGED <<invoices, payments, bills, purchaseOrders, quotations,
                   matches, fieldDefs, documents, files, pipe, inflight>>

\* -------------------------------------------------------- aging: behaviours

DueInputs == {Today - Days30, Today - Days90}
AsOfInputs == {<<>>, <<Today + 1>>, <<Today - Days30>>}
AgingCallers == {c \in Callers : ~c.admin}

InitAging == InitLedger

NextAging ==
    \E caller \in AgingCallers :
        \/ /\ Len(invoices) + Len(bills) < MaxAgedDocs
           /\ \E due \in DueInputs :
                 \E items \in LineItemInputs :
                    create_invoice(caller, caller.company, items, due)
        \/ \E id \in 1..MaxAgedDocs : send_invoice(caller, id)
        \/ \E id \in 1..MaxAgedDocs :
              update_invoice(caller, id, "overdue", None)
        \/ /\ Len(invoices) + Len(bills) < MaxAgedDocs
           /\ \E due \in DueInputs :
                 create_bill(caller, caller.company, Len(bills) + 1, 1, due)
        \/ \E id \in 1..MaxAgedDocs : update_bill(caller, id, "overdue", None)
        \/ \E as_of_date \in AsOfInputs :
              get_aging_receivables(caller, as_of_date)
        \/ \E as_of_date \in AsOfInputs : get_aging_payables(caller, as_of_date)
        \/ \E segment \in {"aging", "1"} : get_bills(caller, segment)

SpecAging == InitAging /\ [][NextAging]_vars

AgingKinds == {"aging_receivables", "aging_payables", "bills_aging"}

\* The table an aging report was drawn from.
AgedTable(body) == IF body.kind = "aging_receivables" THEN invoices ELSE bills

\* The bucket of a number of days past due, by the ranges the report names.
BucketOfDays(days) ==
    IF days <= 0 THEN 1
    ELSE IF days \in 1..30 THEN 2
    ELSE IF days \in 31..60 THEN 3
    ELSE IF days \in 61..90 THEN 4
    ELSE 5

\* The balances of the listed documents that fall into bucket b.
RECURSIVE BalanceIn(_, _, _)
BalanceIn(body, b, k) ==
    IF k > Len(body.details) THEN 0
    ELSE LET doc == AgedTable(body)[body.details[k].id]
         IN (IF b = 0 \/ BucketOfDays(body.report_date - doc.due) = b
             THEN doc.balance ELSE 0) + BalanceIn(body, b, k + 1)

\* C5: in an aging report every listed document is counted in the one bucket
\* of its days past due (<= 0 current, 1-30, 31-60, 61-90, > 90), and
\* summary.total is the sum of the five buckets and the sum of the balances of
\* the documents listed in details.
C5_AgingBuckets ==
    (response.body # <<>> /\ response.body.kind \in AgingKinds) =>
       LET body == response.body IN
       /\ \A k \in DOMAIN body.details :
             LET doc == AgedTable(body)[body.details[k].id]
             IN /\ body.details[k].aging_bucket
                      = Buckets[BucketOfDays(body.report_date - doc.due)]
                /\ body.details[k].balance_amount = doc.balance
       /\ \A b \in 1..5 : body.summary.buckets[b] = BalanceIn(body, b, 1)
       /\ body.summary.total = SumSeq(body.summary.buckets)
       /\ body.summary.total = BalanceIn(body, 0, 1)

\* C5 witness: a report that lists two documents in different buckets, one of
\* them exactly 30 days past due.
C5_Witness ==
    /\ response.body # <<>>
    /\ response.body.kind \in AgingKinds
    /\ Len(response.body.details) = 2
    /\ response.body.details[1].aging_bucket
          # response.body.details[2].aging_bucket
    /\ \E k \in 1..2 : response.body.details[k].days_overdue = Days30

\* C6: the payables aging report lists every bill of the caller's company
\* that has a balance, is past its due date and is neither paid nor
\* cancelled, whatever its status.
C6_OverduePayablesListed ==
    (response.body # <<>> /\ response.body.kind = "aging_payables") =>
       \A i \in DOMAIN bills :
          ( /\ bills[i].company = response.company
            /\ bills[i].balance > 0
            /\ bills[i].due < response.body.report_date
            /\ bills[i].status \notin {"paid", "cancelled"} )
          => \E k \in DOMAIN response.body.details :
                response.body.details[k].id = i

\* C10: GET /bills/aging is answered by get_aging_report with the bucket
\* summary, not by the lookup of a bill by id.
C10_AgingRouteDispatched ==
    (response.body # <<>> /\ response.body.kind \in {"get_bill", "bills_aging"}
       /\ response.body.request = "aging") =>
       response.body.kind = "bills_aging" /\ response.code = 200

\* ---------------------------------------------------------------- approval

PurchaseOrderStatuses ==
    {"draft", "pending", "sent", "acknowledged", "partially_received",
     "received", "closed", "cancelled"}

QuotationStatuses ==
    {"draft", "sent", "viewed", "accepted", "rejected", "expired", "converted"}

\* POST /purchase-orders
create_purchase_order(caller, supplier, po_number, items) ==
    /\ Len(purchaseOrders) < MaxOrders
    /\ IF supplier # caller.company
       THEN /\ response' = Answer(caller, 404, <<>>)
            /\ UNCHANGED purchaseOrders
       ELSE IF \E i \in DOMAIN purchaseOrders :
                  purchaseOrders[i].company = caller.company /\ i = po_number
       THEN /\ response' = Answer(caller, 400, <<>>)
            /\ UNCHANGED purchaseOrders
       ELSE /\ purchaseOrders' =
                  Append(purchaseOrders, NewPurchaseOrder(caller.company, items))
            /\ response' = Answer(caller, 201, <<>>)
    /\ UNCHANGED <<invoices, payments, bills, quotations, matches, fieldDefs,
                   documents, files, pipe, inflight>>

\* PUT /purchase-orders/{po_id}: every field of PurchaseOrderUpdate that was
\* set is assigned, status and approval_status included.
update_purchase_order(caller, id, newStatus, newApproval) ==
    /\ IF ~FoundIn(purchaseOrders, caller, id)
       THEN /\ response' = Answer(caller, 404, <<>>)
            /\ UNCHANGED purchaseOrders
       ELSE IF purchaseOrders[id].status
                  \in {"sent", "acknowledged", "received", "closed"}
       THEN /\ response' = Answer(caller, 400, <<>>)
            /\ UNCHANGED purchaseOrders
       ELSE IF newStatus # None /\ newStatus \notin PurchaseOrderStatuses
       THEN /\ response' = Answer(caller, 500, <<>>)
            /\ UNCHANGED purchaseOrders
       ELSE /\ purchaseOrders' = [purchaseOrders EXCEPT
                   ![id].status = IF newStatus = None THEN @ ELSE newStatus,
                   ![id].approval_status =
                       IF newApproval = None THEN @ ELSE newApproval]
            /\ response' = Answer(caller, 200, <<>>)
    /\ UNCHANGED <<invoices, payments, bills, quotations, matches, fieldDefs,
                   documents, files, pipe, inflight>>

\* POST /purchase-orders/{po_id}/approve, behind require_role("admin").
approve_purchase_order(caller, id) ==
    /\ IF ~caller.admin
       THEN /\ response' = Answer(caller, 403, <<>>)
            /\ UNCHANGED purchaseOrders
       ELSE IF ~FoundIn(purchaseOrders, caller, id)
       THEN /\ response' = Answer(caller, 404, <<>>)
            /\ UNCHANGED purchaseOrders
       ELSE IF purchaseOrders[id].status # "draft"
       THEN /\ response' = Answer(caller, 400, <<>>)
            /\ UNCHANGED purchaseOrders
       ELSE /\ purchaseOrders' = [purchaseOrders EXCEPT
                   ![id].approval_status = "approved",
                   ![id].status = "pending"]
            /\ response' = Answer(caller, 200, <<>>)
    /\ UNCHANGED <<invoices, payments, bills, quotations, matches, fieldDefs,
                   documents, files, pipe, inflight>>

\* POST /purchase-orders/{po_id}/send
send_purchase_order(caller, id) ==
    /\ IF ~FoundIn(purchaseOrders, caller, id)
       THEN /\ response' = Answer(caller, 404, <<>>)
            /\ UNCHANGED purchaseOrders
       ELSE IF purchaseOrders[id].status \notin {"pending", "draft"}
       THEN /\ response' = Answer(caller, 400, <<>>)
            /\ UNCHANGED purchaseOrders
       ELSE /\ purchaseOrders' = [purchaseOrders EXCEPT ![id].status = "sent"]
            /\ response' = Answer(caller, 200, <<>>)
    /\ UNCHANGED <<invoices, payments, bills, quotations, matches, fieldDefs,
                   documents, files, pipe, inflight>>

\* POST /quotations
create_quotation(caller, customer, quotation_number, total) ==
    /\ Len(quotations) < MaxQuotations
    /\ IF customer # caller.company
       THEN /\ response' = Answer(caller, 404, <<>>)
            /\ UNCHANGED quotations
       ELSE IF \E i \in DOMAIN quotations :
                  quotations[i].company = caller.company /\ i = quotation_number
       THEN /\ response' = Answer(caller, 400, <<>>)
            /\ UNCHANGED quotations
       ELSE /\ quotations' =
                  Append(quotations, NewQuotation(caller.company, total))
            /\ response' = Answer(caller, 201, <<>>)
    /\ UNCHANGED <<invoices, payments, bills, purchaseOrders, matches,
                   fieldDefs, documents, files, pipe, inflight>>

\* PUT /quotations/{quotation_id}: every field of QuotationUpdate that was set
\* is assigned, status and approval_status included.
update_quotation(caller, id, newStatus, newApproval) ==
    /\ IF ~FoundIn(quotations, caller, id)
       THEN /\ response' = Answer(caller, 404, <<>>)
            /\ UNCHANGED quotations
       ELSE IF quotations[id].status \in {"sent", "accepted", "converted"}
       THEN /\ response' = Answer(caller, 400, <<>>)
            /\ UNCHANGED quotations
       ELSE IF newStatus # None /\ newStatus \notin QuotationStatuses
       THEN /\ response' = Answer(caller, 500, <<>>)
            /\ UNCHANGED quotations
       ELSE /\ quotations' = [quotations EXCEPT
                   ![id].status = IF newStatus = None THEN @ ELSE newStatus,
                   ![id].approval_status =
                       IF newApproval = None THEN @ ELSE newApproval]
            /\ response' = Answer(caller, 200, <<>>)
    /\ UNCHANGED <<invoices, payments, bills, purchaseOrders, matches,
                   fieldDefs, documents, files, pipe, inflight>>

\* POST /quotations/{quotation_id}/approve, behind require_role("admin").  The
\* status 'pending' it assigns is outside ck_quotations_status, so the commit
\* fails and nothing is stored.
approve_quotation(caller, id) ==
    /\ IF ~caller.admin
       THEN /\ response' = Answer(caller, 403, <<>>)
            /\ UNCHANGED quotations
       ELSE IF ~FoundIn(quotations, caller, id)
       THEN /\ response' = Answer(caller, 404, <<>>)
            /\ UNCHANGED quotations
       ELSE IF quotations[id].status # "draft"
       THEN /\ response' = Answer(caller, 400, <<>>)
            /\ UNCHANGED quotations
       ELSE IF "pending" \notin QuotationStatuses
       THEN /\ response' = Answer(caller, 500, <<>>)
            /\ UNCHANGED quotations
       ELSE /\ quotations' = [quotations EXCEPT
                   ![id].approval_status = "approved",
                   ![id].status = "pending"]
            /\ response' = Answer(caller, 200, <<>>)
    /\ UNCHANGED <<invoices, payments, bills, purchaseOrders, matches,
                   fieldDefs, documents, files, pipe, inflight>>

\* POST /quotations/{quotation_id}/send
send_quotation(caller, id) ==
    /\ IF ~FoundIn(quotations, caller, id)
       THEN /\ response' = Answer(caller, 404, <<>>)
            /\ UNCHANGED quotations
       ELSE IF quotations[id].status \notin {"draft", "pending"}
       THEN /\ response' = Answer(caller, 400, <<>>)
            /\ UNCHANGED quotations
       ELSE /\ quotations' = [quotations EXCEPT ![id].status = "sent"]
            /\ response' = Answer(caller, 200, <<>>)
    /\ UNCHANGED <<invoices, payments, bills, purchaseOrders, matches,
                   fieldDefs, documents, files, pipe, inflight>>

\* ----------------------------------------------------- approval: behaviours

OrderItemInputs == {<<[quantity_ordered |-> 2, unit_price |-> 1]>>}
UpdateStatusInputs == {None, "draft"}
UpdateApprovalInputs == {None, "approved"}

InitApproval == InitLedger

ApprovalDocs == Len(purchaseOrders) + Len(bills) + Len(quotations)

NextApproval ==
    \E caller \in Callers :
        \/ /\ ApprovalDocs < MaxApprovalDocs
           /\ \E items \in OrderItemInputs :
                 create_purchase_order(caller, caller.company,
                                       Len(purchaseOrders) + 1, items)
        \/ \E id \in 1..MaxApprovalDocs :
              \E st \in UpdateStatusInputs, ap \in UpdateApprovalInputs :
                 update_purchase_order(caller, id, st, ap)
        \/ \E id \in 1..MaxApprovalDocs : approve_purchase_order(caller, id)
        \/ \E id \in 1..MaxApprovalDocs : send_purchase_order(caller, id)
        \/ /\ ApprovalDocs < MaxApprovalDocs
           /\ create_bill(caller, caller.company, Len(bills) + 1, 1, Today)
        \/ \E id \in 1..MaxApprovalDocs :
              \E st \in UpdateStatusInputs, ap \in UpdateApprovalInputs :
                 update_bill(caller, id, st, ap)
        \/ \E id \in 1..MaxApprovalDocs : approve_bill(caller, id)
        \/ /\ ApprovalDocs < MaxApprovalDocs
           /\ create_quotation(caller, caller.company, Len(quotations) + 1, 2)
        \/ \E id \in 1..MaxApprovalDocs :
              \E st \in UpdateStatusInputs, ap \in UpdateApprovalInputs :
                 update_quotation(caller, id, st, ap)
        \/ \E id \in 1..MaxApprovalDocs : approve_quotation(caller, id)
        \/ \E id \in 1..MaxApprovalDocs : send_quotation(caller, id)

SpecApproval == InitApproval /\ [][NextApproval]_vars

\* A step that sets the approval_status of a row of tbl to 'approved' is the
\* request of an admin on a row whose status was 'draft'.
GuardedApproval(tbl, tblNext) ==
    \A i \in DOMAIN tbl :
       (tbl[i].approval_status # "approved"
           /\ tblNext[i].approval_status = "approved")
       => (response'.admin /\ tbl[i].status = "draft")

\* C7: a purchase order, bill or quotation gets approval_status 'approved'
\* only by a request of an admin and only while its status is 'draft'; no
\* request of a non-admin sets it.
C7_ApprovalGuarded ==
    [][ /\ GuardedApproval(purchaseOrders, purchaseOrders')
        /\ GuardedApproval(bills, bills')
        /\ GuardedApproval(quotations, quotations') ]_vars

\* ----------------------------------------------------------------- pipeline
\* Confidences are in thousandths, text by its length in characters and the
\* document type its keywords point to.

DocTypes ==
    <<"invoice", "purchase_order", "delivery_order", "quotation", "receipt",
      "contract", "general">>

TypeIndex(doc_type) == CHOOSE k \in DOMAIN DocTypes : DocTypes[k] = doc_type

Min(a, b) == IF a < b THEN a ELSE b
Greater(a, b) == IF a > b THEN a ELSE b

\* max(scores, key=scores.get): the first type, in the order of the dict, that
\* has the highest score.
ArgMax(scores) ==
    DocTypes[CHOOSE k \in DOMAIN scores :
                /\ \A j \in DOMAIN scores : scores[j] <= scores[k]
                /\ \A j \in 1..(k - 1) : scores[j] < scores[k]]

\* round(x, 2), from thousandths to hundredths.
Round2(x) == (x + 5) \div 10

\* The three placeholder texts of _extract_text; none holds a keyword.
Placeholder(length) == [placeholder |-> TRUE, length |-> length, doc |-> "general"]

\* The except clause of _extract_text: the exception is logged and a
\* placeholder that quotes it is returned with confidence 0.
OcrFailureRaised(message_length) ==
    [raised |-> TRUE, text |-> Placeholder(85 + message_length),
     confidence |-> 0, failed |-> TRUE]

OcrFailure(message_length) ==
    [raised |-> FALSE, text |-> Placeholder(85 + message_length),
     confidence |-> 0, failed |-> TRUE]

\* DocumentService._extract_text.  ocr is what the OCR libraries do with the
\* file: raise (message_length is the length of str(e)), or read a text with a
\* confidence.
extract_text(env, file_type, ocr) ==
    LET Read == IF ocr.raises THEN OcrFailure(ocr.message_length)
                ELSE [raised |-> FALSE, text |-> ocr.text,
                      confidence |-> ocr.confidence, failed |-> FALSE]
    IN IF ~env.has_ocr
       THEN [raised |-> FALSE, text |-> Placeholder(125), confidence |-> 0,
             failed |-> FALSE]
       ELSE IF file_type = "application/pdf"
       THEN IF ~env.has_pdf2image
            THEN [raised |-> FALSE, text |-> Placeholder(123),
                  confidence |-> 0, failed |-> FALSE]
            ELSE Read
       ELSE IF file_type = "image/png" THEN Read
       ELSE OcrFailure(ocr.message_length)

\* The keyword scores of _classify_document: two points per keyword found.
KeywordScores(text) ==
    [k \in DOMAIN DocTypes |->
        IF text.doc # "general" /\ DocTypes[k] = text.doc THEN 4 ELSE 0]

\* min(0.95, max(0.3, max_score / 10.0)), times 0.7 for a text under 50
\* characters.
KeywordConfidence(max_score, length) ==
    LET confidence == Min(950, Greater(300, max_score * 100))
    IN IF length < 50 THEN (confidence * 7) \div 10 ELSE confidence

\* asyncio.run(coro) refuses to start inside a running event loop.
AsyncioRunNested(loop_running) == "run"

AsyncioRun(loop_running) == IF loop_running THEN "RuntimeError" ELSE "run"

\* The result a stage hands to process_document's except clause.
Failed(p, message) ==
    [p EXCEPT !.pc = "done",
              !.result = [success |-> FALSE, error |-> message]]

\* process_document is awaited by the upload handler, inside the event loop.
\* Calls share no state, so a behaviour follows one call.
process_document(file_type, env) ==
    /\ pipe.pc = "idle"
    /\ pipe' = [pc |-> "extract_text", entry |-> "process_document",
                env |-> env, file_type |-> file_type,
                loop_running |-> TRUE, saved |-> <<>>,
                calls |-> [extract_text |-> 0, classify |-> 0,
                           extract_data |-> 0],
                text |-> Placeholder(0), ocr_confidence |-> 0,
                ocr_failed |-> FALSE, scores |-> KeywordScores(Placeholder(0)),
                doc_type |-> "general", confidence |-> 0,
                ml_method |-> None, result |-> None]
    /\ UNCHANGED <<invoices, payments, bills, purchaseOrders, quotations,
                   matches, fieldDefs, documents, files, response, inflight>>

\* MLService.classify_document called from synchronous code, outside any
\* event loop.
classify_document(text, env) ==
    /\ pipe.pc = "idle"
    /\ pipe' = [pc |-> "ml", entry |-> "classify_document",
                env |-> env, file_type |-> None,
                loop_running |-> FALSE, saved |-> <<>>,
                calls |-> [extract_text |-> 0, classify |-> 0,
                           extract_data |-> 0],
                text |-> text, ocr_confidence |-> 0,
                ocr_failed |-> FALSE, scores |-> KeywordScores(Placeholder(0)),
                doc_type |-> "general", confidence |-> 0,
                ml_method |-> None, result |-> None]
    /\ UNCHANGED <<invoices, payments, bills, purchaseOrders, quotations,
                   matches, fieldDefs, documents, files, response, inflight>>

\* process_document, line 92: text extraction.  An exception that leaves
\* _extract_text lands in process_document's own except clause.
step_extract_text(ocr) ==
    /\ pipe.pc = "extract_text"
    /\ LET r == extract_text(pipe.env, pipe.file_type, ocr)
           p == [pipe EXCEPT !.calls.extract_text = @ + 1,
                             !.ocr_failed = r.failed]
       IN pipe' = IF r.raised THEN Failed(p, "ocr")
                  ELSE [p EXCEPT !.pc = "classify", !.text = r.text,
                                 !.ocr_confidence = r.confidence]
    /\ UNCHANGED <<invoices, payments, bills, purchaseOrders, quotations,
                   matches, fieldDefs, documents, files, response, inflight>>

\* What the caller of a finished or failed nested asyncio.run sees: the loop
\* state from before the run, and MLService's answer (never 'ml_model').
\* The outermost MLService.classify_document of a synchronous call returns to
\* its caller; any other returns into the _classify_document that called it.
ReturnFromRun(p, method) ==
    LET q == [p EXCEPT !.loop_running = p.saved[Len(p.saved)],
                       !.saved = SubSeq(p.saved, 1, Len(p.saved) - 1),
                       !.ml_method = method]
    IN IF q.saved = <<>> /\ q.entry = "classify_document"
       THEN [q EXCEPT !.pc = "done",
                      !.result = [success |-> TRUE, method |-> method]]
       ELSE [q EXCEPT !.pc = "ai"]

\* _classify_document, lines 226-292: the keyword scores, then the choice of
\* the ML branch.  unexpected is an exception outside the two inner try
\* blocks; it leaves _classify_document.
step_classify(unexpected) ==
    /\ pipe.pc = "classify"
    /\ LET scores == KeywordScores(pipe.text)
           max_score == scores[TypeIndex(ArgMax(scores))]
           p == [pipe EXCEPT
                   !.calls.classify = @ + 1,
                   !.scores = scores,
                   !.doc_type = IF max_score > 0 THEN ArgMax(scores)
                                ELSE "general",
                   !.confidence = KeywordConfidence(max_score, pipe.text.length)]
       IN pipe' =
            IF unexpected
            THEN IF pipe.saved = <<>> THEN Failed(p, "classify")
                 ELSE ReturnFromRun(p, "rule_based_fallback")
            ELSE IF pipe.env.ml_available /\ pipe.text.length > 50
            THEN [p EXCEPT !.pc = "ml"]
            ELSE [p EXCEPT !.pc = "ai"]
    /\ UNCHANGED <<invoices, payments, bills, purchaseOrders, quotations,
                   matches, fieldDefs, documents, files, response, inflight>>

\* The ML branch of _classify_document applied to MLService's answer: only a
\* 'ml_model' answer changes the scores.
AfterMl(p, method, ml_type, ml_confidence) ==
    IF method = "ml_model"
    THEN LET scores == [p.scores EXCEPT ![TypeIndex(ml_type)] = @ + 10]
         IN [p EXCEPT !.pc = "ai", !.ml_method = method, !.scores = scores,
                      !.doc_type = ArgMax(scores),
                      !.confidence = Greater(p.confidence, ml_confidence)]
    ELSE [p EXCEPT !.pc = "ai", !.ml_method = method]

\* MLService.classify_document.  With a model loaded it predicts (or fails and
\* answers 'error'); without, it falls back to
\* asyncio.run(document_service._classify_document(text)) inside a bare
\* except.
step_ml(predict_fails) ==
    /\ pipe.pc = "ml"
    /\ LET top == pipe.entry = "classify_document" /\ pipe.saved = <<>>
           Answer_(method, ml_type, ml_confidence) ==
               IF top
               THEN [pipe EXCEPT !.pc = "done", !.ml_method = method,
                         !.result = [success |-> TRUE, method |-> method]]
               ELSE AfterMl(pipe, method, ml_type, ml_confidence)
       IN IF pipe.env.model_loaded
          THEN pipe' = IF predict_fails THEN Answer_("error", "general", 0)
                       ELSE Answer_("ml_model", "receipt", 900)
          ELSE IF AsyncioRun(pipe.loop_running) = "RuntimeError"
          THEN pipe' = Answer_("rule_based_fallback", "general", 500)
          ELSE /\ Len(pipe.saved) < MaxDepth
               /\ pipe' = [pipe EXCEPT
                              !.saved = Append(@, pipe.loop_running),
                              !.loop_running = TRUE,
                              !.pc = "classify"]
    /\ UNCHANGED <<invoices, payments, bills, purchaseOrders, quotations,
                   matches, fieldDefs, documents, files, response, inflight>>

\* _classify_document, lines 307-328: the AI branch and the return.  ai is
\* what _ai_classify_document answers: None, or a type with confidence 0.8.
step_ai(ai) ==
    /\ pipe.pc = "ai"
    /\ LET p == IF pipe.env.ai_available /\ pipe.text.length > 100 /\ ai # None
                THEN LET scores == [pipe.scores EXCEPT ![TypeIndex(ai)] = @ + 5]
                     IN [pipe EXCEPT
                           !.scores = scores,
                           !.doc_type = ArgMax(scores),
                           !.confidence = (pipe.confidence + 800) \div 2]
                ELSE pipe
       IN pipe' = IF p.saved = <<>> THEN [p EXCEPT !.pc = "extract_data"]
                  ELSE ReturnFromRun(p, "rule_based")
    /\ UNCHANGED <<invoices, payments, bills, purchaseOrders, quotations,
                   matches, fieldDefs, documents, files, response, inflight>>

\* process_document, lines 102-117: field extraction and the result.
\* unexpected is an exception that leaves _extract_data.
step_extract_data(unexpected) ==
    /\ pipe.pc = "extract_data"
    /\ LET p == [pipe EXCEPT !.calls.extract_data = @ + 1]
       IN pipe' =
            IF unexpected THEN Failed(p, "extract_data")
            ELSE [p EXCEPT
                    !.pc = "done",
                    !.result =
                       [success |-> TRUE,
                        document_type |-> p.doc_type,
                        extracted_text |-> p.text,
                        confidence |->
                           Round2((p.ocr_confidence * 6 + p.confidence * 4)
                                  \div 10),
                        ocr_confidence |-> Round2(p.ocr_confidence),
                        classification_confidence |-> Round2(p.confidence)]]
    /\ UNCHANGED <<invoices, payments, bills, purchaseOrders, quotations,
                   matches, fieldDefs, documents, files, response, inflight>>

\* ------------------------------------------------------ pipeline: behaviours

Environments ==
    [has_ocr : BOOLEAN, has_pdf2image : BOOLEAN, ml_available : BOOLEAN,
     model_loaded : BOOLEAN, ai_available : BOOLEAN]

FileTypes == {"application/pdf", "image/png", "text/plain"}

TextInputs ==
    [placeholder : {FALSE}, length : {40, 80, 120}, doc : {"invoice", "general"}]

OcrInputs ==
    [raises : {TRUE}, message_length : {0, 30}, text : {Placeholder(0)},
     confidence : {0}]
    \cup [raises : {FALSE}, message_length : {0}, text : TextInputs,
          confidence : {0, 800}]

InitPipeline == InitLedger

NextPipeline ==
    \/ \E file_type \in FileTypes, env \in Environments :
          process_document(file_type, env)
    \/ \E text \in TextInputs, env \in Environments :
          classify_document(text, env)
    \/ \E ocr \in OcrInputs : step_extract_text(ocr)
    \/ \E unexpected \in BOOLEAN : step_classify(unexpected)
    \/ \E predict_fails \in BOOLEAN : step_ml(predict_fails)
    \/ \E ai \in {None, "contract"} : step_ai(ai)
    \/ \E unexpected \in BOOLEAN : step_extract_data(unexpected)

SpecPipeline == InitPipeline /\ [][NextPipeline]_vars

\* The event loop runs a started call to its end.
SpecPipelineFair == SpecPipeline /\ WF_vars(NextPipeline)

Running == pipe.pc \notin {"idle", "done"}

\* Each stage ran at most once and in order, and at most one nested
\* asyncio.run is open.
StagesOnce ==
    pipe.pc # "idle" =>
       /\ pipe.calls.extract_text <= 1
       /\ pipe.calls.classify <= 1
       /\ pipe.calls.extract_data <= 1
       /\ pipe.calls.extract_data = 1 => pipe.calls.classify = 1
       /\ (pipe.entry = "process_document" /\ pipe.calls.classify = 1)
             => pipe.calls.extract_text = 1
       /\ Len(pipe.saved) <= 1

\* C8: one process_document call runs text extraction, classification and
\* field extraction in this order, each at most once, the fall-back between
\* _classify_document and MLService.classify_document nests at most one
\* asyncio.run, and every started call comes to its end.
C8_PipelineLinear == [] StagesOnce /\ (Running ~> pipe.pc = "done")

\* C8 witness: a process_document call that went through MLService's
\* fall-back and finished with every stage run once.
C8_Witness ==
    /\ pipe.pc = "done"
    /\ pipe.entry = "process_document"
    /\ pipe.ml_method = "rule_based_fallback"
    /\ pipe.calls = [extract_text |-> 1, classify |-> 1, extract_data |-> 1]

\* C9: a finished process_document call has a result with success true, or
\* with success false and an error; a failure inside text extraction is never
\* that error: it leaves a placeholder text and OCR confidence 0, and
\* classification runs after it, and field extraction too, which the result
\* of a successful call then reports.
C9_FailuresAbsorbed ==
    (pipe.pc = "done" /\ pipe.entry = "process_document") =>
       /\ pipe.result.success \in BOOLEAN
       /\ ~pipe.result.success => pipe.result.error \in {"classify", "extract_data"}
       /\ pipe.ocr_failed =>
             /\ pipe.calls.classify = 1
             /\ pipe.text.placeholder
             /\ pipe.ocr_confidence = 0
             /\ pipe.result.success =>
                   /\ pipe.calls.extract_data = 1
                   /\ pipe.result.ocr_confidence = 0
                   /\ pipe.result.extracted_text.placeholder

\* C9 witness: a call whose OCR raised and that still finished successfully
\* after classification and field extraction.
C9_Witness ==
    /\ pipe.pc = "done"
    /\ pipe.entry = "process_document"
    /\ pipe.ocr_failed
    /\ pipe.result.success
    /\ pipe.calls.classify = 1
    /\ pipe.calls.extract_data = 1

\* --------------------------------------------------------------- invoicing

\* POST /quotations/{quotation_id}/convert-to-invoice.  The customer of a
\* quotation was checked against the company when the quotation was created
\* and the lookup here has no deleted_at filter, so it is found.  The invoice
\* takes the quotation's totals and the next invoice number of the company;
\* the quotation becomes 'converted' in the same commit.
convert_quotation_to_invoice(caller, quotation_id) ==
    /\ Len(invoices) < MaxInvoices
    /\ IF quotation_id = BadId
       THEN /\ response' = Answer(caller, 400,
                                  [detail |-> "Invalid quotation ID format"])
            /\ UNCHANGED <<invoices, quotations>>
       ELSE IF ~FoundIn(quotations, caller, UUID(quotation_id))
       THEN /\ response' = Answer(caller, 404,
                                  [detail |-> "Quotation not found"])
            /\ UNCHANGED <<invoices, quotations>>
       ELSE IF quotations[UUID(quotation_id)].status = "converted"
       THEN /\ response' = Answer(caller, 400,
                                  [detail |-> "Quotation already converted"])
            /\ UNCHANGED <<invoices, quotations>>
       ELSE /\ invoices' = Append(invoices,
                   NewInvoice(caller.company,
                              MaxInvoiceNumber(caller.company) + 1,
                              quotations[UUID(quotation_id)].total, Today,
                              quotation_id))
            /\ quotations' = [quotations EXCEPT
                   ![UUID(quotation_id)].status = "converted"]
            /\ response' = Answer(caller, 200, [quotation_id |-> quotation_id])
    /\ UNCHANGED <<payments, bills, purchaseOrders, matches, fieldDefs,
                   documents, files, pipe, inflight>>

\* --------------------------------------------------- invoicing: behaviours

PaymentAmountInputs == {1, 3}
PaymentInputs ==
    {<<>>} \cup {<<[invoice_id |-> i, amount |-> a]>> :
                    i \in InvoiceIdInputs, a \in PaymentAmountInputs}
QuotationIdInputs == IdStrings \cup {BadId}

InitInvoicing == InitLedger

InvoicingCallers == {c \in Callers : c.company = "A" /\ ~c.admin}

NextInvoicing ==
    \E caller \in InvoicingCallers :
        \/ create_quotation(caller, caller.company, Len(quotations) + 1, 2)
        \/ \E items \in LineItemInputs :
              create_invoice(caller, caller.company, items, Today)
        \/ \E id \in QuotationIdInputs :
              convert_quotation_to_invoice(caller, id)
        \/ \E allocs \in PaymentInputs : create_payment(caller, 1, allocs)
        \/ \E id \in InvoiceIdInputs : mark_invoice_paid(caller, id)
        \/ \E id \in InvoiceIdInputs : send_invoice(caller, id)
        \/ \E id \in InvoiceIdInputs :
              update_invoice(caller, id, "cancelled", None)

SpecInvoicing == InitInvoicing /\ [][NextInvoicing]_vars

C13_NeverOverpaid ==
    \A i \in DOMAIN invoices :
       invoices[i].paid <= invoices[i].total /\ invoices[i].balance >= 0

\* ------------------------------------------------------ concurrent requests

\* Two server processes serve requests at the same time, each handler with a
\* database session of its own; the handlers take no lock.  A handler is a
\* sequence of SQL statements, and between two of them another request's
\* statement or commit may run; a query sees what was committed before it
\* (read committed).  A request in flight carries the handler's locals.
Request(handler, caller, pc, quotation_id, status, total, code) ==
    [handler |-> handler, company |-> caller.company, pc |-> pc,
     quotation_id |-> quotation_id, status |-> status, total |-> total,
     max_num |-> 0, code |-> code, invoice_id |-> 0]

\* POST /invoices, up to the customer lookup.
begin_create_invoice(caller, customer, items) ==
    /\ Len(inflight) < MaxRequests
    /\ IF customer # caller.company
       THEN /\ inflight' = Append(inflight,
                   Request("create_invoice", caller, "done", None, None, 0, 404))
            /\ response' = Answer(caller, 404, <<>>)
       ELSE /\ inflight' = Append(inflight,
                   Request("create_invoice", caller, "max_invoice", None, None,
                           InvoiceTotal(items), 0))
            /\ UNCHANGED response
    /\ UNCHANGED <<invoices, payments, bills, purchaseOrders, quotations,
                   matches, fieldDefs, documents, files, pipe>>

\* POST /quotations/{quotation_id}/convert-to-invoice, up to the check of the
\* quotation's status.
begin_convert_quotation_to_invoice(caller, quotation_id) ==
    /\ Len(inflight) < MaxRequests
    /\ IF quotation_id = BadId
       THEN /\ inflight' = Append(inflight,
                   Request("convert", caller, "done", quotation_id, None, 0, 400))
            /\ response' = Answer(caller, 400,
                                  [detail |-> "Invalid quotation ID format"])
       ELSE IF ~FoundIn(quotations, caller, UUID(quotation_id))
       THEN /\ inflight' = Append(inflight,
                   Request("convert", caller, "done", quotation_id, None, 0, 404))
            /\ response' = Answer(caller, 404,
                                  [detail |-> "Quotation not found"])
       ELSE IF quotations[UUID(quotation_id)].status = "converted"
       THEN /\ inflight' = Append(inflight,
                   Request("convert", caller, "done", quotation_id,
                           "converted", 0, 400))
            /\ response' = Answer(caller, 400,
                                  [detail |-> "Quotation already converted"])
       ELSE /\ inflight' = Append(inflight,
                   Request("convert", caller, "max_invoice", quotation_id,
                           quotations[UUID(quotation_id)].status,
                           quotations[UUID(quotation_id)].total, 0))
            /\ UNCHANGED response
    /\ UNCHANGED <<invoices, payments, bills, purchaseOrders, quotations,
                   matches, fieldDefs, documents, files, pipe>>

\* The query for the company's greatest invoice number, in either handler.
query_max_invoice(r) ==
    /\ r \in DOMAIN inflight
    /\ inflight[r].pc = "max_invoice"
    /\ inflight' = [inflight EXCEPT
           ![r].max_num = MaxInvoiceNumber(inflight[r].company),
           ![r].pc = "commit"]
    /\ UNCHANGED <<invoices, payments, bills, purchaseOrders, quotations,
                   matches, fieldDefs, documents, files, response, pipe>>

\* db.add(invoice) ... db.commit(): the insert of the invoice row with number
\* max_num + 1 and, for a conversion, the update of the quotation.  A row of
\* the company with that number breaks uk_invoices_company_number: the
\* IntegrityError is not caught, the session is closed without a commit and
\* the request is answered 500.
commit_invoice(r) ==
    /\ r \in DOMAIN inflight
    /\ inflight[r].pc = "commit"
    /\ LET req == inflight[r]
           caller == [company |-> req.company, admin |-> FALSE]
           number == req.max_num + 1
       IN IF \E i \in DOMAIN invoices :
                /\ invoices[i].company = req.company
                /\ invoices[i].number = number
          THEN /\ inflight' = [inflight EXCEPT ![r].pc = "done",
                                               ![r].code = 500]
               /\ response' = Answer(caller, 500, <<>>)
               /\ UNCHANGED <<invoices, quotations>>
          ELSE /\ invoices' = Append(invoices,
                      NewInvoice(req.company, number, req.total, Today,
                                 req.quotation_id))
               /\ quotations' =
                     IF req.handler = "convert"
                     THEN [quotations EXCEPT
                             ![UUID(req.quotation_id)].status = "converted"]
                     ELSE quotations
               /\ inflight' = [inflight EXCEPT
                     ![r].pc = "done",
                     ![r].code = IF req.handler = "convert" THEN 200 ELSE 201,
                     ![r].invoice_id = Len(invoices) + 1]
               /\ response' = Answer(caller,
                     IF req.handler = "convert" THEN 200 ELSE 201, <<>>)
    /\ UNCHANGED <<payments, bills, purchaseOrders, matches, fieldDefs,
                   documents, files, pipe>>

\* ---------------------------------------------- concurrent requests: runs

InitConcurrent == InitLedger

ConcurrentCallers == {c \in Callers : ~c.admin}

NextConcurrent ==
    \/ \E caller \in ConcurrentCallers :
          \/ create_quotation(caller, caller.company, Len(quotations) + 1, 2)
          \/ \E customer \in Companies, items \in LineItemInputs :
                begin_create_invoice(caller, customer, items)
          \/ \E id \in QuotationIdInputs :
                begin_convert_quotation_to_invoice(caller, id)
    \/ \E r \in 1..MaxRequests : query_max_invoice(r)
    \/ \E r \in 1..MaxRequests : commit_invoice(r)

SpecConcurrent == InitConcurrent /\ [][NextConcurrent]_vars

\* C14: two create_invoice or convert_quotation_to_invoice requests of one
\* company that run concurrently compute different invoice numbers and both
\* commit, and the invoice numbers of a company stay pairwise distinct.
C14_NumberingSafe ==
    /\ \A r1, r2 \in DOMAIN inflight :
          (r1 # r2 /\ inflight[r1].pc = "commit" /\ inflight[r2].pc = "commit"
              /\ inflight[r1].company = inflight[r2].company)
          => inflight[r1].max_num # inflight[r2].max_num
    /\ \A r \in DOMAIN inflight : inflight[r].code # 500
    /\ \A i, j \in DOMAIN invoices :
          (i # j /\ invoices[i].company = invoices[j].company)
          => invoices[i].number # invoices[j].number

\* C15: at most one invoice is ever created from a quotation, and a convert
\* request that finds the quotation 'converted' is answered 400 and creates
\* no invoice.
C15_ConvertedOnce ==
    /\ \A q \in IdStrings :
          Cardinality({i \in DOMAIN invoices : invoices[i].quotation = q}) <= 1
    /\ \A r \in DOMAIN inflight :
          (inflight[r].handler = "convert" /\ inflight[r].status = "converted")
          => /\ inflight[r].pc = "done"
             /\ inflight[r].code = 400
             /\ inflight[r].invoice_id = 0

\* -------------------------------------------------------------- purchasing

\* The body of the receipt loop for the line item a receipt names.
ReceiveLineStale(line_item, quantity_received) ==
    LET received == line_item.quantity_received + quantity_received
    IN [line_item EXCEPT
          !.quantity_received = received,
          !.status = IF received >= line_item.quantity_ordered THEN "received"
                     ELSE IF received > 0 THEN "partial"
                     ELSE "pending"]

ReceiveLine(line_item, quantity_received) ==
    LET received == line_item.quantity_received + quantity_received
    IN [line_item EXCEPT
          !.quantity_received = received,
          !.quantity_pending = line_item.quantity_ordered - received,
          !.status = IF received >= line_item.quantity_ordered THEN "received"
                     ELSE IF received > 0 THEN "partial"
                     ELSE "pending"]

\* The receipt loop: a receipt whose line_item_id names no line item of the
\* purchase order is skipped.
RECURSIVE ReceiveLines(_, _)
ReceiveLines(line_items, receipts) ==
    IF receipts = <<>> THEN line_items
    ELSE LET receipt == Head(receipts)
         IN ReceiveLines(
               IF receipt.line_item_id \in DOMAIN line_items
               THEN [line_items EXCEPT ![receipt.line_item_id] =
                        ReceiveLine(@, receipt.quantity_received)]
               ELSE line_items,
               Tail(receipts))

\* The status of the purchase order after the loop: all(...) and any(...)
\* over po.line_items.
ReceivedStatus(po_status, line_items) ==
    LET all_received ==
            \A k \in DOMAIN line_items :
               line_items[k].quantity_received >= line_items[k].quantity_ordered
        partial_received ==
            \E k \in DOMAIN line_items :
               /\ line_items[k].quantity_received > 0
               /\ line_items[k].quantity_received < line_items[k].quantity_ordered
    IN IF all_received THEN "received"
       ELSE IF partial_received THEN "partially_received"
       ELSE po_status

\* No quantity_received beyond MaxReceived.
ReceivedWithinBound(line_items) ==
    \A k \in DOMAIN line_items :
       line_items[k].quantity_received <= MaxReceived

\* POST /purchase-orders/{po_id}/receive
receive_purchase_order(caller, id, line_item_receipts) ==
    /\ FoundIn(purchaseOrders, caller, id) =>
          ReceivedWithinBound(
             ReceiveLines(purchaseOrders[id].lines, line_item_receipts))
    /\ IF ~FoundIn(purchaseOrders, caller, id)
       THEN /\ response' = Answer(caller, 404, <<>>)
            /\ UNCHANGED purchaseOrders
       ELSE LET line_items ==
                    ReceiveLines(purchaseOrders[id].lines, line_item_receipts)
            IN /\ purchaseOrders' = [purchaseOrders EXCEPT
                      ![id].lines = line_items,
                      ![id].status = ReceivedStatus(@, line_items)]
               /\ response' = Answer(caller, 200, <<>>)
    /\ UNCHANGED <<invoices, payments, bills, quotations, matches, fieldDefs,
                   documents, files, pipe, inflight>>

\* -------------------------------------------------- purchasing: behaviours

PurchaseItemInputs ==
    {<<[quantity_ordered |-> 2, unit_price |-> 1]>>,
     <<[quantity_ordered |-> 2, unit_price |-> 1],
       [quantity_ordered |-> 1, unit_price |-> 1]>>}

ReceiptInputs ==
    LET one == [line_item_id : {1, 2}, quantity_received : {1, 2}]
    IN {<<>>} \cup {<<r>> : r \in one}
            \cup {<<r1, r2>> \in one \X one :
                     r1.line_item_id < r2.line_item_id}

PurchaseStatusInputs == {None, "sent"}

InitPurchasing == InitLedger

PurchasingCallers == {c \in Callers : c.company = "A"}

NextPurchasing ==
    \E caller \in PurchasingCallers :
        \/ /\ Len(purchaseOrders) < MaxReceivingOrders
           /\ \E items \in PurchaseItemInputs :
                 create_purchase_order(caller, caller.company,
                                       Len(purchaseOrders) + 1, items)
        \/ \E id \in 1..MaxOrders, st \in PurchaseStatusInputs :
              update_purchase_order(caller, id, st, None)
        \/ \E id \in 1..MaxOrders : approve_purchase_order(caller, id)
        \/ \E id \in 1..MaxOrders : send_purchase_order(caller, id)
        \/ \E id \in 1..MaxOrders, receipts \in ReceiptInputs :
              receive_purchase_order(caller, id, receipts)

SpecPurchasing == InitPurchasing /\ [][NextPurchasing]_vars

\* C16: a purchase order's status becomes 'sent' only by send_purchase_order
\* applied to a purchase order whose status is 'draft' or 'pending'.
C16_SentOnlyBySend ==
    [][\A i \in DOMAIN purchaseOrders :
          (purchaseOrders[i].status # "sent" /\ purchaseOrders'[i].status = "sent")
          => /\ purchaseOrders[i].status \in {"draft", "pending"}
             /\ \E caller \in PurchasingCallers :
                   send_purchase_order(caller, i)]_vars

\* C17: update_purchase_order applied to a purchase order that has been sent
\* or approved answers 400 and changes no field.
C17_NoUpdateOnceSentOrApproved ==
    [][\A caller \in PurchasingCallers, id \in 1..MaxOrders,
          st \in PurchaseStatusInputs :
          (/\ update_purchase_order(caller, id, st, None)
           /\ FoundIn(purchaseOrders, caller, id)
           /\ \/ purchaseOrders[id].status = "sent"
              \/ purchaseOrders[id].approval_status = "approved")
          => /\ response'.code = 400
             /\ purchaseOrders' = purchaseOrders]_vars

\* C18: after receive_purchase_order commits, the purchase order's status is
\* 'received' if every line item has quantity_received >= quantity_ordered,
\* and 'partially_received' if some quantity has been received on the order
\* but not every line item is fully received.
C18_ReceivedStatus ==
    [][\A caller \in PurchasingCallers, id \in 1..MaxOrders,
          receipts \in ReceiptInputs :
          (/\ receive_purchase_order(caller, id, receipts)
           /\ FoundIn(purchaseOrders, caller, id))
          => LET po == purchaseOrders'[id]
                 full == \A k \in DOMAIN po.lines :
                            po.lines[k].quantity_received
                               >= po.lines[k].quantity_ordered
                 some == \E k \in DOMAIN po.lines :
                            po.lines[k].quantity_received > 0
             IN /\ full => po.status = "received"
                /\ (some /\ ~full) => po.status = "partially_received"]_vars

\* C19: for every purchase-order line item, after creation and after any
\* sequence of receive_purchase_order requests,
\* quantity_pending = quantity_ordered - quantity_received.
C19_PendingIsOrderedMinusReceived ==
    \A i \in DOMAIN purchaseOrders :
       \A k \in DOMAIN purchaseOrders[i].lines :
          LET line_item == purchaseOrders[i].lines[k]
          IN line_item.quantity_pending =
                line_item.quantity_ordered - line_item.quantity_received

\* C19 witness: an order with one line item partly received and another
\* received beyond the quantity ordered.
C19_Witness ==
    \E i \in DOMAIN purchaseOrders :
       /\ \E k \in DOMAIN purchaseOrders[i].lines :
             /\ purchaseOrders[i].lines[k].status = "partial"
             /\ purchaseOrders[i].lines[k].quantity_pending > 0
       /\ \E k \in DOMAIN purchaseOrders[i].lines :
             /\ purchaseOrders[i].lines[k].status = "received"
             /\ purchaseOrders[i].lines[k].quantity_pending < 0

====
